---- MODULE Spec2Model ----
(***************************************************************************)
(* xnode-deployer: the XnodeDeployer lifecycle (deploy / undeploy / ipv4)  *)
(* of the Hivelocity and Hyperstack adapters, the parsing of the           *)
(* providers' JSON responses into handles, addresses and structural        *)
(* errors, and DeployInput::cloud_init.                                    *)
(***************************************************************************)
EXTENDS Integers, Sequences, FiniteSets, TLC

VARIABLES deployer, inflight, last, created, deleted, input, script

vars == <<deployer, inflight, last, created, deleted, input, script>>

\* Number of calls on the one adapter instance that may await the transport
\* at the same time.
MaxInflight == 2

(***************************************************************************)
(* serde_json::Value.  One record shape for every value: t is the variant, *)
(* k the representation of a Number (serde_json's N: PosInt, NegInt,       *)
(* Float), n the integer (a Float keeps its value in tenths), s the        *)
(* characters of a String, a the elements of an Array, o the entries of an *)
(* Object (set of key/val pairs, keys unique).                             *)
(***************************************************************************)
JV(t, k, n, s, a, o) == [t |-> t, k |-> k, n |-> n, s |-> s, a |-> a, o |-> o]

Null == JV("Null", "", 0, <<>>, <<>>, {})

Bool(b) == JV("Bool", "", IF b THEN 1 ELSE 0, <<>>, <<>>, {})

PosInt(n) == JV("Number", "PosInt", n, <<>>, <<>>, {})

NegInt(n) == JV("Number", "NegInt", n, <<>>, <<>>, {})

Float(tenths) == JV("Number", "Float", tenths, <<>>, <<>>, {})

Str(s) == JV("String", "", 0, s, <<>>, {})

Arr(a) == JV("Array", "", 0, <<>>, a, {})

Obj(o) == JV("Object", "", 0, <<>>, <<>>, o)

KV(key, val) == [key |-> key, val |-> val]

\* A success-status body that does not decode as JSON.
NotJson == JV("NotJson", "", 0, <<>>, <<>>, {})

\* Option<T> is a sequence of length at most one.
None == <<>>

Some(x) == <<x>>

\* serde_json::Map::get
Get(o, key) ==
  LET m == {p \in o : p.key = key}
  IN IF m = {} THEN None ELSE Some((CHOOSE p \in m : TRUE).val)

\* slice::last in the place of slice::first.
FirstIsLast(a) == IF Len(a) = 0 THEN None ELSE Some(a[Len(a)])

\* slice::first
First(a) == IF Len(a) = 0 THEN None ELSE Some(a[1])

\* as_i64 in the place of as_u64: a negative integer passes too.
as_u64_signed(number) == IF number.k # "Float" THEN Some(number.n) ELSE None

\* serde_json::Number::as_u64: only a non-negative integer is a u64.
as_u64(number) == IF number.k = "PosInt" THEN Some(number.n) ELSE None

(***************************************************************************)
(* Error (utils/error.rs) and the results of the three operations.         *)
(***************************************************************************)
NoError == [outer |-> "", inner |-> "", variant |-> "", payload |-> Null]

\* Error::ReqwestError(e); kind tells what reqwest failed at.
ReqwestError(kind) ==
  [outer |-> "ReqwestError", inner |-> "", variant |-> kind, payload |-> Null]

\* Error::XnodeDeployerError(XnodeDeployerError::new(inner(variant {payload})))
XnodeDeployerError(inner, variant, payload) ==
  [outer |-> "XnodeDeployerError", inner |-> inner, variant |-> variant,
   payload |-> payload]

HivelocityError(variant, payload) ==
  XnodeDeployerError("HivelocityError", variant, payload)

HyperstackError(variant, payload) ==
  XnodeDeployerError("HyperstackError", variant, payload)

NoIp == [support |-> "", ip |-> None]

\* OptionalSupport::Supported(Option<Ipv4Addr>)
Supported(ip) == [support |-> "Supported", ip |-> ip]

NotSupported == [support |-> "NotSupported", ip |-> None]

Ok(id, ip) == [tag |-> "Ok", id |-> id, ip |-> ip, err |-> NoError]

Err(e) == [tag |-> "Err", id |-> None, ip |-> NoIp, err |-> e]

NoResult == [tag |-> "", id |-> None, ip |-> NoIp, err |-> NoError]

(***************************************************************************)
(* std::net::Ipv4Addr::from_str, as the adapters call it: four decimal     *)
(* groups separated by '.', each of one to three digits, no leading zero,  *)
(* each fitting a u8, and nothing after the fourth group.  A string is the *)
(* sequence of its characters; an address is the sequence of its octets.   *)
(***************************************************************************)
IsDigit(c) == c \in {"0", "1", "2", "3", "4", "5", "6", "7", "8", "9"}

DigitVal(c) ==
  CASE c = "0" -> 0 [] c = "1" -> 1 [] c = "2" -> 2 [] c = "3" -> 3
    [] c = "4" -> 4 [] c = "5" -> 5 [] c = "6" -> 6 [] c = "7" -> 7
    [] c = "8" -> 8 [] c = "9" -> 9

U8Max == 255

MaxDigits == 3

MaxIpv4Len == 15

NoNumber == [ok |-> FALSE, val |-> 0, pos |-> 0, count |-> 0]

\* The digit loop of read_number: checked u8 arithmetic, at most MaxDigits.
RECURSIVE read_digits(_, _, _, _)
read_digits(s, pos, result, digit_count) ==
  IF pos <= Len(s) /\ IsDigit(s[pos])
  THEN LET r == result * 10 + DigitVal(s[pos])
       IN IF r > U8Max \/ digit_count + 1 > MaxDigits
          THEN NoNumber
          ELSE read_digits(s, pos + 1, r, digit_count + 1)
  ELSE [ok |-> TRUE, val |-> result, pos |-> pos, count |-> digit_count]

\* read_number(10, Some(3), allow_zero_prefix = false)
read_number(s, pos) ==
  LET has_leading_zero == pos <= Len(s) /\ s[pos] = "0"
      d == read_digits(s, pos, 0, 0)
  IN IF ~d.ok \/ d.count = 0 \/ (has_leading_zero /\ d.count > 1)
     THEN NoNumber
     ELSE d

\* read_ipv4_addr: group i > 0 is preceded by the separator.
RECURSIVE read_groups(_, _, _, _)
read_groups(s, pos, i, groups) ==
  IF i = 4
  THEN [ok |-> TRUE, groups |-> groups, pos |-> pos]
  ELSE LET sep_ok == i = 0 \/ (pos <= Len(s) /\ s[pos] = ".")
           p == IF i = 0 THEN pos ELSE pos + 1
           r == read_number(s, p)
       IN IF ~sep_ok \/ ~r.ok
          THEN [ok |-> FALSE, groups |-> <<>>, pos |-> 0]
          ELSE read_groups(s, r.pos, i + 1, Append(groups, r.val))

Ipv4Addr_from_str(s) ==
  IF Len(s) > MaxIpv4Len
  THEN None
  ELSE LET r == read_groups(s, 1, 0, <<>>)
       IN IF r.ok /\ r.pos = Len(s) + 1 THEN Some(r.groups) ELSE None

(***************************************************************************)
(* DeployInput::cloud_init.  Text is a sequence of pieces; format! and     *)
(* join concatenate pieces.                                                *)
(***************************************************************************)
Header == "#cloud-config\nruncmd:\n - "

Install ==
  " curl https://raw.githubusercontent.com/Openmesh-Network/xnode-manager/main/os/install.sh | bash 2>&1 | tee /tmp/xnodeos.log"

\* format!("export {name}=\"{content}\" && ")
ExportFragment(name, content) == <<"export ", name, "=\"", content, "\" && ">>

\* The array with DOMAIN ahead of XNODE_OWNER.
EnvFieldsDomainFirst(self) ==
  << <<"DOMAIN", self.domain>>,
     <<"XNODE_OWNER", self.xnode_owner>>,
     <<"ACME_EMAIL", self.acme_email>>,
     <<"USER_PASSWD", self.user_passwd>>,
     <<"ENCRYPTED", self.encrypted>>,
     <<"INITIAL_CONFIG", self.initial_config>> >>

\* The (name, content) array cloud_init iterates over, in its order.
EnvFields(self) ==
  << <<"XNODE_OWNER", self.xnode_owner>>,
     <<"DOMAIN", self.domain>>,
     <<"ACME_EMAIL", self.acme_email>>,
     <<"USER_PASSWD", self.user_passwd>>,
     <<"ENCRYPTED", self.encrypted>>,
     <<"INITIAL_CONFIG", self.initial_config>> >>

\* The for loop over fields i.. with env.push, followed by env.join("").
RECURSIVE EnvJoin(_, _)
EnvJoin(fields, i) ==
  IF i > Len(fields)
  THEN <<>>
  ELSE LET name == fields[i][1]
           content == fields[i][2]
       IN (IF content # None THEN ExportFragment(name, content[1]) ELSE <<>>)
          \o EnvJoin(fields, i + 1)

cloud_init(self) == <<Header>> \o EnvJoin(EnvFields(self), 1) \o <<Install>>

(***************************************************************************)
(* The transport, as the adapters use it: send().await, then               *)
(* error_for_status, then (deploy and ipv4 only) json().await.             *)
(***************************************************************************)
\* What the provider and the network answer to one request.
Reply(sent, status, body) == [sent |-> sent, status |-> status, body |-> body]

\* Only a server error counts as an error status.
error_for_status_server_only(status) == status >= 500 /\ status < 600

\* reqwest::Response::error_for_status: a client or server error status.
error_for_status(status) == status >= 400 /\ status < 600

\* .send().await.and_then(|response| response.error_for_status()): the kind
\* of the reqwest::Error, "" when there is none.
SendError(reply) ==
  IF ~reply.sent THEN "send"
  ELSE IF error_for_status(reply.status) THEN "status"
  ELSE ""

\* .json::<serde_json::Value>().await
JsonError(reply) == IF reply.body = NotJson THEN "decode" ELSE ""

(***************************************************************************)
(* Hivelocity adapter.                                                     *)
(***************************************************************************)
HivelocityBase == "https://core.hivelocity.net/api/v2/"

\* Both arms of the scope match name the bare-metal collection.
HivelocityScopeBareMetalOnly(hardware) ==
  CASE hardware = "BareMetal" -> "bare-metal-devices"
    [] hardware = "Compute" -> "bare-metal-devices"

\* The scope match of undeploy and ipv4.
HivelocityScope(hardware) ==
  CASE hardware = "BareMetal" -> "bare-metal-devices"
    [] hardware = "Compute" -> "compute"

\* The collection deploy posts to, per hardware variant.
HivelocityCreateScope(hardware) ==
  CASE hardware = "BareMetal" -> "bare-metal-devices"
    [] hardware = "Compute" -> "compute"

HivelocityOsName(hardware) ==
  CASE hardware = "BareMetal" -> "Ubuntu 24.04"
    [] hardware = "Compute" -> "Ubuntu 24.04 (VPS)"

Request(method, base, scope, slash, id, header, key, scr, image) ==
  [method |-> method,
   url |-> [base |-> base, scope |-> scope, slash |-> slash, id |-> id],
   header |-> [name |-> header, value |-> key],
   body |-> [script |-> scr, image |-> image]]

HivelocityCreateRequest(self, di) ==
  Request("POST", HivelocityBase, HivelocityCreateScope(self.hardware), TRUE,
          None, "X-API-KEY", self.api_key, cloud_init(di),
          HivelocityOsName(self.hardware))

HivelocityDeleteRequest(self, device_id) ==
  Request("DELETE", HivelocityBase, HivelocityScope(self.hardware), TRUE,
          Some(device_id), "X-API-KEY", self.api_key, <<>>, "")

HivelocityReadRequest(self, device_id) ==
  Request("GET", HivelocityBase, HivelocityScope(self.hardware), TRUE,
          Some(device_id), "X-API-KEY", self.api_key, <<>>, "")

\* A missing "deviceId" reported with XnodeDeployerErrorInner::Default.
HivelocityDeviceIdDefault(response) ==
  IF response.t = "Object"
  THEN LET got == Get(response.o, "deviceId")
       IN IF got = None
          THEN Err(XnodeDeployerError("Default", "", Null))
          ELSE LET device_id == got[1]
                   number == IF device_id.t = "Number"
                             THEN as_u64(device_id)
                             ELSE None
               IN IF number = None
                  THEN Err(HivelocityError("ResponseInvalidDeviceId", device_id))
                  ELSE Ok(number, NoIp)
  ELSE Err(HivelocityError("ResponseNotObject", response))

\* The match on the create response: Result<u64, Error>.
HivelocityDeviceId(response) ==
  IF response.t = "Object"
  THEN LET got == Get(response.o, "deviceId")
       IN IF got = None
          THEN Err(HivelocityError("ResponseMissingDeviceId", response))
          ELSE LET device_id == got[1]
                   number == IF device_id.t = "Number"
                             THEN as_u64(device_id)
                             ELSE None
               IN IF number = None
                  THEN Err(HivelocityError("ResponseInvalidDeviceId", device_id))
                  ELSE Ok(number, NoIp)
  ELSE Err(HivelocityError("ResponseNotObject", response))

\* deploy, from the reply on: the result and whether the body was read.
HivelocityDeploy(reply) ==
  IF SendError(reply) # ""
  THEN [body_read |-> FALSE, result |-> Err(ReqwestError(SendError(reply)))]
  ELSE IF JsonError(reply) # ""
  THEN [body_read |-> TRUE, result |-> Err(ReqwestError(JsonError(reply)))]
  ELSE [body_read |-> TRUE, result |-> HivelocityDeviceId(reply.body)]

HivelocityUndeploy(reply) ==
  IF SendError(reply) # ""
  THEN [body_read |-> FALSE, result |-> Err(ReqwestError(SendError(reply)))]
  ELSE [body_read |-> FALSE, result |-> Ok(None, NoIp)]

\* The nested if-lets of ipv4 on the read response.
HivelocityPrimaryIp(response) ==
  IF response.t = "Object"
  THEN LET got == Get(response.o, "primaryIp")
       IN IF got # None /\ got[1].t = "String"
          THEN Ipv4Addr_from_str(got[1].s)
          ELSE None
  ELSE None

HivelocityIpv4(reply) ==
  IF SendError(reply) # ""
  THEN [body_read |-> FALSE, result |-> Err(ReqwestError(SendError(reply)))]
  ELSE IF JsonError(reply) # ""
  THEN [body_read |-> TRUE, result |-> Err(ReqwestError(JsonError(reply)))]
  ELSE [body_read |-> TRUE,
        result |-> Ok(None, Supported(HivelocityPrimaryIp(reply.body)))]

(***************************************************************************)
(* Hyperstack adapter.                                                     *)
(***************************************************************************)
HyperstackBase == "https://infrahub-api.nexgencloud.com/v1/core/"

HyperstackImage == "Ubuntu Server 22.04 LTS (Jammy Jellyfish)"

HyperstackCreateRequest(self, di) ==
  Request("POST", HyperstackBase, "virtual-machines", FALSE, None,
          "api_key", self.api_key, cloud_init(di), HyperstackImage)

HyperstackDeleteRequest(self, id) ==
  Request("DELETE", HyperstackBase, "virtual-machines", TRUE, Some(id),
          "api_key", self.api_key, <<>>, "")

HyperstackReadRequest(self, id) ==
  Request("GET", HyperstackBase, "virtual-machines", TRUE, Some(id),
          "api_key", self.api_key, <<>>, "")

\* The second and_then of deploy: the id of one instance.  A non-object
\* instance is reported as ResponseNotObject carrying the whole response.
HyperstackInstanceId(instance, response) ==
  IF instance.t = "Object"
  THEN LET got == Get(instance.o, "id")
       IN IF got = None
          THEN Err(HyperstackError("ResponseMissingId", instance))
          ELSE LET id == got[1]
                   number == IF id.t = "Number" THEN as_u64(id) ELSE None
               IN IF number = None
                  THEN Err(HyperstackError("ResponseInvalidId", id))
                  ELSE Ok(number, NoIp)
  ELSE Err(HyperstackError("ResponseNotObject", response))

\* An empty array reported as ResponseInvalidInstances.
HyperstackIdEmptyIsInvalid(response) ==
  IF response.t = "Object"
  THEN LET got == Get(response.o, "instances")
       IN IF got = None
          THEN Err(HyperstackError("ResponseMissingInstances", response))
          ELSE LET instances == got[1]
               IN IF instances.t = "Array" /\ First(instances.a) # None
                  THEN HyperstackInstanceId(First(instances.a)[1], response)
                  ELSE Err(HyperstackError("ResponseInvalidInstances", instances))
  ELSE Err(HyperstackError("ResponseNotObject", response))

\* The match on the create response: Result<u64, Error>.
HyperstackId(response) ==
  IF response.t = "Object"
  THEN LET got == Get(response.o, "instances")
       IN IF got = None
          THEN Err(HyperstackError("ResponseMissingInstances", response))
          ELSE LET instances == got[1]
               IN IF instances.t = "Array"
                  THEN IF First(instances.a) = None
                       THEN Err(HyperstackError("ResponseEmptyInstances", Null))
                       ELSE HyperstackInstanceId(First(instances.a)[1], response)
                  ELSE Err(HyperstackError("ResponseInvalidInstances", instances))
  ELSE Err(HyperstackError("ResponseNotObject", response))

HyperstackDeploy(reply) ==
  IF SendError(reply) # ""
  THEN [body_read |-> FALSE, result |-> Err(ReqwestError(SendError(reply)))]
  ELSE IF JsonError(reply) # ""
  THEN [body_read |-> TRUE, result |-> Err(ReqwestError(JsonError(reply)))]
  ELSE [body_read |-> TRUE, result |-> HyperstackId(reply.body)]

\* undeploy decoding the body of the delete response.
HyperstackUndeployReadsBody(reply) ==
  IF SendError(reply) # ""
  THEN [body_read |-> FALSE, result |-> Err(ReqwestError(SendError(reply)))]
  ELSE IF JsonError(reply) # ""
  THEN [body_read |-> TRUE, result |-> Err(ReqwestError(JsonError(reply)))]
  ELSE [body_read |-> TRUE, result |-> Ok(None, NoIp)]

\* Option<Error>: None is the success.
HyperstackUndeploy(reply) ==
  IF SendError(reply) # ""
  THEN [body_read |-> FALSE, result |-> Err(ReqwestError(SendError(reply)))]
  ELSE [body_read |-> FALSE, result |-> Ok(None, NoIp)]

\* "floating_ip" looked up at the top level of the response.
HyperstackFloatingIpTopLevel(response) ==
  IF response.t = "Object"
  THEN LET got == Get(response.o, "floating_ip")
       IN IF got # None /\ got[1].t = "String"
          THEN Ipv4Addr_from_str(got[1].s)
          ELSE None
  ELSE None

\* The nested if-lets of ipv4 on the read response.
HyperstackFloatingIp(response) ==
  IF response.t = "Object"
  THEN LET inst == Get(response.o, "instance")
       IN IF inst # None /\ inst[1].t = "Object"
          THEN LET got == Get(inst[1].o, "floating_ip")
               IN IF got # None /\ got[1].t = "String"
                  THEN Ipv4Addr_from_str(got[1].s)
                  ELSE None
          ELSE None
  ELSE None

HyperstackIpv4(reply) ==
  IF SendError(reply) # ""
  THEN [body_read |-> FALSE, result |-> Err(ReqwestError(SendError(reply)))]
  ELSE IF JsonError(reply) # ""
  THEN [body_read |-> TRUE, result |-> Err(ReqwestError(JsonError(reply)))]
  ELSE [body_read |-> TRUE,
        result |-> Ok(None, Supported(HyperstackFloatingIp(reply.body)))]

(***************************************************************************)
(* The inputs the model draws from.                                        *)
(***************************************************************************)
\* Values found where an identifier is expected.
IdValues ==
  {PosInt(42), PosInt(7), NegInt(-1), Float(15), Str(<<"4", "2">>),
   Bool(TRUE), Null, Arr(<<>>), Obj({})}

\* Elements found in an "instances" array.
Instances ==
  {Obj({KV("id", v)}) : v \in IdValues}
    \cup {Obj({}), Obj({KV("deviceId", PosInt(42))}),
          Obj({KV("id", PosInt(7)), KV("name", Str(<<"v", "m">>))}),
          Null, PosInt(42), Arr(<<>>)}

NonObjects ==
  {Null, Bool(FALSE), PosInt(42), Str(<<"o", "k">>), Arr(<<>>),
   Arr(<<Obj({KV("deviceId", PosInt(42))})>>),
   Arr(<<Obj({KV("instances", Arr(<<Obj({KV("id", PosInt(42))})>>))})>>)}

\* Bodies of create responses, of either provider's shape.
CreateBodies ==
  NonObjects
    \cup {Obj({KV("deviceId", v)}) : v \in IdValues}
    \cup {Obj({}),
          Obj({KV("id", PosInt(42))}),
          Obj({KV("deviceId", PosInt(42)), KV("id", PosInt(7)),
               KV("primaryIp", Str(<<"0", ".", "0", ".", "0", ".", "0">>))}),
          Obj({KV("deviceId", PosInt(7)), KV("id", PosInt(7)),
               KV("instances", Arr(<<Obj({KV("id", PosInt(42))})>>))})}
    \cup {Obj({KV("instances", Arr(<<e>>))}) : e \in Instances}
    \cup {Obj({KV("instances", Arr(<<e, f>>))}) :
            e \in {Obj({KV("id", PosInt(42))}), Obj({}), Null,
                   Obj({KV("id", Str(<<"4", "2">>))})},
            f \in {Obj({KV("id", PosInt(7))}), Null}}
    \cup {Obj({KV("instances", x)}) :
            x \in {Arr(<<>>), Null, PosInt(42), Str(<<"4", "2">>),
                   Obj({KV("id", PosInt(42))})}}

IpStrings ==
  {<<"1", ".", "2", ".", "3", ".", "4">>,
   <<"0", ".", "0", ".", "0", ".", "0">>,
   <<"2", "5", "5", ".", "1", "0", ".", "0", ".", "9">>,
   <<"2", "5", "6", ".", "1", ".", "1", ".", "1">>,
   <<"0", "1", ".", "2", ".", "3", ".", "4">>,
   <<"1", ".", "2", ".", "3">>,
   <<"1", ".", "2", ".", "3", ".", "4", ".", "5">>,
   <<"1", ".", ".", "3", ".", "4">>,
   <<"1", ".", "2", ".", "3", ".", "4", " ">>,
   <<"1", ".", "2", ".", "3", ".", "1", "0", "0", "0">>,
   <<"a", ".", "b", ".", "c", ".", "d">>,
   <<>>}

\* Values found where an address is expected.
IpValues == {Str(s) : s \in IpStrings} \cup {Null, PosInt(42), Obj({}), Arr(<<>>)}

\* Bodies of read responses, of either provider's shape.
ReadBodies ==
  {Null, PosInt(42), Str(<<"1", ".", "2", ".", "3", ".", "4">>),
   Arr(<<Obj({KV("primaryIp", Str(<<"1", ".", "2", ".", "3", ".", "4">>))})>>)}
    \cup {Obj({KV("primaryIp", v)}) : v \in IpValues}
    \cup {Obj({KV("instance", Obj({KV("floating_ip", v)}))}) : v \in IpValues}
    \cup {Obj({}),
          Obj({KV("floating_ip", Str(<<"1", ".", "2", ".", "3", ".", "4">>))}),
          Obj({KV("instance", Str(<<"1", ".", "2", ".", "3", ".", "4">>))}),
          Obj({KV("instance", Obj({}))}),
          Obj({KV("instance",
                  Obj({KV("primaryIp", Str(<<"1", ".", "2", ".", "3", ".", "4">>))}))}),
          Obj({KV("instance",
                  Arr(<<Obj({KV("floating_ip",
                                Str(<<"1", ".", "2", ".", "3", ".", "4">>))})>>))})}

\* A body well-formed for every operation of either provider.
WellFormed(id, ip) ==
  Obj({KV("deviceId", PosInt(id)),
       KV("instances", Arr(<<Obj({KV("id", PosInt(id))})>>)),
       KV("primaryIp", Str(ip)),
       KV("instance", Obj({KV("floating_ip", Str(ip))}))})

\* Replies without a success status: the request never completed, or the
\* provider answered with an error status (and some body).
FailedReplies ==
  {Reply(FALSE, 0, Null),
   Reply(TRUE, 404, NotJson),
   Reply(TRUE, 500, WellFormed(42, <<"1", ".", "2", ".", "3", ".", "4">>))}

CreateReplies ==
  FailedReplies
    \cup {Reply(TRUE, 200, b) : b \in CreateBodies \cup {NotJson}}
    \cup {Reply(TRUE, 201, Obj({KV("deviceId", PosInt(7))}))}

DeleteReplies ==
  FailedReplies
    \cup {Reply(TRUE, 200, b) : b \in {NotJson, Null, Obj({})}}
    \cup {Reply(TRUE, 204, NotJson)}

ReadReplies ==
  FailedReplies \cup {Reply(TRUE, 200, b) : b \in ReadBodies \cup {NotJson}}

\* The replies drawn while calls overlap: a few of each kind.
FewCreateReplies ==
  FailedReplies
    \cup {Reply(TRUE, 200, b) :
            b \in {NotJson, Null, Obj({}),
                   WellFormed(42, <<"0", ".", "0", ".", "0", ".", "0">>),
                   WellFormed(7, <<"1", ".", "2", ".", "3", ".", "4">>)}}

FewDeleteReplies ==
  FailedReplies \cup {Reply(TRUE, 200, Obj({})), Reply(TRUE, 204, NotJson)}

FewReadReplies ==
  FailedReplies
    \cup {Reply(TRUE, 200, b) :
            b \in {NotJson, Obj({}),
                   WellFormed(42, <<"0", ".", "0", ".", "0", ".", "0">>),
                   WellFormed(42, <<"1", ".", "2", ".", "3", ".", "4">>)}}

Present == {"a.com", "0xabc"}

\* Every DeployInput over the field values: all 64 subsets of present fields.
DeployInputs ==
  [xnode_owner : {None} \cup {Some(v) : v \in Present},
   domain : {None} \cup {Some(v) : v \in Present},
   acme_email : {None} \cup {Some(v) : v \in Present},
   user_passwd : {None} \cup {Some(v) : v \in Present},
   encrypted : {None} \cup {Some(v) : v \in Present},
   initial_config : {None} \cup {Some(v) : v \in Present}]

NoInput ==
  [xnode_owner |-> None, domain |-> None, acme_email |-> None,
   user_passwd |-> None, encrypted |-> None, initial_config |-> None]

\* The inputs the adapters are driven with.
AdapterInputs ==
  {[NoInput EXCEPT !.domain = Some("a.com")],
   [NoInput EXCEPT !.xnode_owner = Some("0xabc"), !.user_passwd = Some("a.com")]}

FewInputs == {[NoInput EXCEPT !.domain = Some("a.com")]}

\* HivelocityDeployer::new / HyperstackDeployer::new: the adapter instances.
Deployers ==
  {[provider |-> "Hivelocity", api_key |-> "key", hardware |-> "BareMetal"],
   [provider |-> "Hivelocity", api_key |-> "key", hardware |-> "Compute"],
   [provider |-> "Hyperstack", api_key |-> "key", hardware |-> "VirtualMachine"]}

(***************************************************************************)
(* State.  deployer: the adapter instance (&self).  inflight: the calls    *)
(* awaiting the transport.  last: the call that returned last, with the    *)
(* requests it issued, the reply it got and its result.  created: the      *)
(* handles deploy returned, each with the collection its create request    *)
(* was posted to.  deleted: the handles a delete succeeded for.            *)
(* input, script: the argument and the value of cloud_init.                *)
(***************************************************************************)
Slots == 1 .. MaxInflight

Idle == [op |-> "idle", xnode |-> None, reqs |-> <<>>]

Call(op, xnode, req) == [op |-> op, xnode |-> xnode, reqs |-> <<req>>]

NoCall ==
  [op |-> "none", xnode |-> None, reqs |-> <<>>, reply |-> Reply(FALSE, 0, Null),
   body_read |-> FALSE, result |-> NoResult]

\* A deploy answered from the result of the deploy that returned before it.
ReturnedCached(call, reply, out) ==
  [op |-> call.op, xnode |-> call.xnode, reqs |-> call.reqs, reply |-> reply,
   body_read |-> out.body_read,
   result |-> IF call.op = "deploy" /\ last.op = "deploy" /\ last.result.tag = "Ok"
              THEN last.result
              ELSE out.result]

Returned(call, reply, out) ==
  [op |-> call.op, xnode |-> call.xnode, reqs |-> call.reqs, reply |-> reply,
   body_read |-> out.body_read, result |-> out.result]

\* The handles the caller holds: those deploy returned.
Handles == {c.id : c \in created}

Init ==
  /\ deployer \in Deployers
  /\ inflight = [s \in Slots |-> Idle]
  /\ last = NoCall
  /\ created = {}
  /\ deleted = {}
  /\ input = NoInput
  /\ script = <<>>

\* deploy up to the await of send().
DeploySend(s, inputs) ==
  /\ inflight[s].op = "idle"
  /\ \E di \in inputs :
       inflight' = [inflight EXCEPT ![s] =
         Call("deploy", None,
              IF deployer.provider = "Hivelocity"
              THEN HivelocityCreateRequest(deployer, di)
              ELSE HyperstackCreateRequest(deployer, di))]
  /\ UNCHANGED <<deployer, last, created, deleted, input, script>>

\* Hivelocity deploy from the reply to its return.
HivelocityDeployReturn(s, replies) ==
  /\ deployer.provider = "Hivelocity"
  /\ inflight[s].op = "deploy"
  /\ \E reply \in replies :
       LET out == HivelocityDeploy(reply)
       IN /\ last' = Returned(inflight[s], reply, out)
          /\ created' = IF out.result.tag = "Ok"
                        THEN created \cup {[id |-> out.result.id[1],
                                            scope |-> inflight[s].reqs[1].url.scope]}
                        ELSE created
  /\ inflight' = [inflight EXCEPT ![s] = Idle]
  /\ UNCHANGED <<deployer, deleted, input, script>>

\* Hyperstack deploy from the reply to its return.
HyperstackDeployReturn(s, replies) ==
  /\ deployer.provider = "Hyperstack"
  /\ inflight[s].op = "deploy"
  /\ \E reply \in replies :
       LET out == HyperstackDeploy(reply)
       IN /\ last' = Returned(inflight[s], reply, out)
          /\ created' = IF out.result.tag = "Ok"
                        THEN created \cup {[id |-> out.result.id[1],
                                            scope |-> inflight[s].reqs[1].url.scope]}
                        ELSE created
  /\ inflight' = [inflight EXCEPT ![s] = Idle]
  /\ UNCHANGED <<deployer, deleted, input, script>>

\* undeploy up to the await of send().
UndeploySend(s) ==
  /\ inflight[s].op = "idle"
  /\ \E id \in Handles :
       inflight' = [inflight EXCEPT ![s] =
         Call("undeploy", Some(id),
              IF deployer.provider = "Hivelocity"
              THEN HivelocityDeleteRequest(deployer, id)
              ELSE HyperstackDeleteRequest(deployer, id))]
  /\ UNCHANGED <<deployer, last, created, deleted, input, script>>

HivelocityUndeployReturn(s, replies) ==
  /\ deployer.provider = "Hivelocity"
  /\ inflight[s].op = "undeploy"
  /\ \E reply \in replies :
       LET out == HivelocityUndeploy(reply)
       IN /\ last' = Returned(inflight[s], reply, out)
          /\ deleted' = IF out.result.tag = "Ok"
                        THEN deleted \cup {inflight[s].xnode[1]}
                        ELSE deleted
  /\ inflight' = [inflight EXCEPT ![s] = Idle]
  /\ UNCHANGED <<deployer, created, input, script>>

HyperstackUndeployReturn(s, replies) ==
  /\ deployer.provider = "Hyperstack"
  /\ inflight[s].op = "undeploy"
  /\ \E reply \in replies :
       LET out == HyperstackUndeploy(reply)
       IN /\ last' = Returned(inflight[s], reply, out)
          /\ deleted' = IF out.result.tag = "Ok"
                        THEN deleted \cup {inflight[s].xnode[1]}
                        ELSE deleted
  /\ inflight' = [inflight EXCEPT ![s] = Idle]
  /\ UNCHANGED <<deployer, created, input, script>>

\* ipv4 up to the await of send().
Ipv4Send(s) ==
  /\ inflight[s].op = "idle"
  /\ \E id \in Handles :
       inflight' = [inflight EXCEPT ![s] =
         Call("ipv4", Some(id),
              IF deployer.provider = "Hivelocity"
              THEN HivelocityReadRequest(deployer, id)
              ELSE HyperstackReadRequest(deployer, id))]
  /\ UNCHANGED <<deployer, last, created, deleted, input, script>>

HivelocityIpv4Return(s, replies) ==
  /\ deployer.provider = "Hivelocity"
  /\ inflight[s].op = "ipv4"
  /\ \E reply \in replies :
       last' = Returned(inflight[s], reply, HivelocityIpv4(reply))
  /\ inflight' = [inflight EXCEPT ![s] = Idle]
  /\ UNCHANGED <<deployer, created, deleted, input, script>>

HyperstackIpv4Return(s, replies) ==
  /\ deployer.provider = "Hyperstack"
  /\ inflight[s].op = "ipv4"
  /\ \E reply \in replies :
       last' = Returned(inflight[s], reply, HyperstackIpv4(reply))
  /\ inflight' = [inflight EXCEPT ![s] = Idle]
  /\ UNCHANGED <<deployer, created, deleted, input, script>>

\* Calls overlap: up to MaxInflight of them await the transport.
Next ==
  \E s \in Slots :
    \/ DeploySend(s, FewInputs)
    \/ HivelocityDeployReturn(s, FewCreateReplies)
    \/ HyperstackDeployReturn(s, FewCreateReplies)
    \/ UndeploySend(s)
    \/ HivelocityUndeployReturn(s, FewDeleteReplies)
    \/ HyperstackUndeployReturn(s, FewDeleteReplies)
    \/ Ipv4Send(s)
    \/ HivelocityIpv4Return(s, FewReadReplies)
    \/ HyperstackIpv4Return(s, FewReadReplies)

Spec == Init /\ [][Next]_vars

\* One call at a time (the caller awaits each call before the next), over
\* every reply.
NextSeq ==
  \/ DeploySend(1, AdapterInputs)
  \/ HivelocityDeployReturn(1, CreateReplies)
  \/ HyperstackDeployReturn(1, CreateReplies)
  \/ UndeploySend(1)
  \/ HivelocityUndeployReturn(1, DeleteReplies)
  \/ HyperstackUndeployReturn(1, DeleteReplies)
  \/ Ipv4Send(1)
  \/ HivelocityIpv4Return(1, ReadReplies)
  \/ HyperstackIpv4Return(1, ReadReplies)

SpecSeq == Init /\ [][NextSeq]_vars

(***************************************************************************)
(* cloud_init as a function of its argument alone.                         *)
(***************************************************************************)
InitCloudInit ==
  /\ deployer \in {d \in Deployers : d.hardware = "BareMetal"}
  /\ inflight = [s \in Slots |-> Idle]
  /\ last = NoCall
  /\ created = {}
  /\ deleted = {}
  /\ input \in DeployInputs
  /\ script = <<>>

CloudInit ==
  /\ script = <<>>
  /\ script' = cloud_init(input)
  /\ UNCHANGED <<deployer, inflight, last, created, deleted, input>>

NextCloudInit == CloudInit

SpecCloudInit == InitCloudInit /\ [][NextCloudInit]_vars

(***************************************************************************)
(* Properties.  They speak of the call that returned last: its reply is    *)
(* what the provider answered, its result what the caller got.             *)
(***************************************************************************)
Has(v, key) == \E p \in v.o : p.key = key

At(v, key) == (CHOOSE p \in v.o : p.key = key).val

\* The reply came with a success status.
SuccessStatus == last.reply.sent /\ last.reply.status \in 200 .. 299

\* The reply came with a success status and a JSON body.
Delivered == SuccessStatus /\ last.reply.body # NotJson

Returns(op, provider) == last.op = op /\ deployer.provider = provider

\* The result is the structural error inner(variant), and nothing else.
Structural(inner, variant) ==
  /\ last.result.tag = "Err"
  /\ last.result.id = None
  /\ last.result.ip = NoIp
  /\ last.result.err.outer = "XnodeDeployerError"
  /\ last.result.err.inner = inner
  /\ last.result.err.variant = variant

\* C1: Hivelocity deploy on a create response delivered with success status
\* returns HivelocityError::ResponseNotObject when the JSON value is not an
\* object, ResponseMissingDeviceId when it is an object without "deviceId",
\* ResponseInvalidDeviceId when "deviceId" has a wrong JSON type; each time
\* an Error::XnodeDeployerError wrapping the Hivelocity variant (never
\* Default, never a transport error) and no handle.
C1_HivelocityMalformed ==
  (Returns("deploy", "Hivelocity") /\ Delivered) =>
    LET b == last.reply.body
    IN /\ b.t # "Object" => Structural("HivelocityError", "ResponseNotObject")
       /\ (b.t = "Object" /\ ~Has(b, "deviceId")) =>
            Structural("HivelocityError", "ResponseMissingDeviceId")
       /\ (b.t = "Object" /\ Has(b, "deviceId") /\ At(b, "deviceId").t # "Number") =>
            Structural("HivelocityError", "ResponseInvalidDeviceId")

\* The create response {} was answered with ResponseMissingDeviceId.
C1_Witness ==
  /\ Returns("deploy", "Hivelocity")
  /\ Delivered
  /\ last.reply.body = Obj({})
  /\ Structural("HivelocityError", "ResponseMissingDeviceId")

\* C2: Hyperstack deploy classifies a malformed create response by the first
\* failing check: not an object -> ResponseNotObject; no "instances" ->
\* ResponseMissingInstances; "instances" not an array ->
\* ResponseInvalidInstances; empty array -> ResponseEmptyInstances; first
\* element (an object) without "id" -> ResponseMissingId; "id" of a wrong JSON
\* type -> ResponseInvalidId; always Hyperstack-tagged, never with a handle.
C2_HyperstackMalformed ==
  (Returns("deploy", "Hyperstack") /\ Delivered) =>
    LET b == last.reply.body
        hasInstances == b.t = "Object" /\ Has(b, "instances")
        isArray == hasInstances /\ At(b, "instances").t = "Array"
        nonEmpty == isArray /\ Len(At(b, "instances").a) > 0
        firstObject == nonEmpty /\ At(b, "instances").a[1].t = "Object"
        hasId == firstObject /\ Has(At(b, "instances").a[1], "id")
    IN /\ b.t # "Object" => Structural("HyperstackError", "ResponseNotObject")
       /\ (b.t = "Object" /\ ~hasInstances) =>
            Structural("HyperstackError", "ResponseMissingInstances")
       /\ (hasInstances /\ ~isArray) =>
            Structural("HyperstackError", "ResponseInvalidInstances")
       /\ (isArray /\ ~nonEmpty) =>
            Structural("HyperstackError", "ResponseEmptyInstances")
       /\ (firstObject /\ ~hasId) =>
            Structural("HyperstackError", "ResponseMissingId")
       /\ (hasId /\ At(At(b, "instances").a[1], "id").t # "Number") =>
            Structural("HyperstackError", "ResponseInvalidId")
       /\ last.result.tag = "Err" =>
            /\ last.result.err.outer = "XnodeDeployerError"
            /\ last.result.err.inner = "HyperstackError"
            /\ last.result.id = None

\* The create response {"instances": []} was answered with
\* ResponseEmptyInstances.
C2_Witness ==
  /\ Returns("deploy", "Hyperstack")
  /\ Delivered
  /\ last.reply.body = Obj({KV("instances", Arr(<<>>))})
  /\ Structural("HyperstackError", "ResponseEmptyInstances")

\* The result is the handle with this identifier.
Handle(n) ==
  /\ last.result.tag = "Ok"
  /\ last.result.id = Some(n)
  /\ last.result.err = NoError

\* The value is a JSON number that is a u64.
IsU64(v) == v.t = "Number" /\ v.k = "PosInt" /\ v.n >= 0

\* C3: on a well-formed create response deploy returns the handle whose
\* identifier is the number in the response: Hivelocity the top-level
\* "deviceId", Hyperstack the "id" of the first element of "instances",
\* whatever else the response holds.
C3_HandleIsResponseId ==
  /\ (Returns("deploy", "Hivelocity") /\ Delivered) =>
       LET b == last.reply.body
       IN (b.t = "Object" /\ Has(b, "deviceId") /\ IsU64(At(b, "deviceId"))) =>
            Handle(At(b, "deviceId").n)
  /\ (Returns("deploy", "Hyperstack") /\ Delivered) =>
       LET b == last.reply.body
           reaches == /\ b.t = "Object"
                      /\ Has(b, "instances")
                      /\ At(b, "instances").t = "Array"
                      /\ Len(At(b, "instances").a) > 0
                      /\ At(b, "instances").a[1].t = "Object"
                      /\ Has(At(b, "instances").a[1], "id")
       IN (reaches /\ IsU64(At(At(b, "instances").a[1], "id"))) =>
            Handle(At(At(b, "instances").a[1], "id").n)

\* Hyperstack returned the first element's id, 42, of a two-element array
\* whose second element has the id 7.
C3_Witness ==
  /\ Returns("deploy", "Hyperstack")
  /\ Delivered
  /\ last.reply.body.t = "Object"
  /\ Has(last.reply.body, "instances")
  /\ At(last.reply.body, "instances") =
       Arr(<<Obj({KV("id", PosInt(42))}), Obj({KV("id", PosInt(7))})>>)
  /\ Handle(42)

\* A dotted-quad literal, read off the string as a whole: exactly three
\* dots, and between them four decimal numbers of one to three digits, none
\* with a leading zero, none above 255.
Dots(s) == {i \in 1 .. Len(s) : s[i] = "."}

Decimal(seg) ==
  IF Len(seg) = 1 THEN DigitVal(seg[1])
  ELSE IF Len(seg) = 2 THEN 10 * DigitVal(seg[1]) + DigitVal(seg[2])
  ELSE 100 * DigitVal(seg[1]) + 10 * DigitVal(seg[2]) + DigitVal(seg[3])

IsOctet(seg) ==
  /\ Len(seg) \in 1 .. 3
  /\ \A i \in 1 .. Len(seg) : IsDigit(seg[i])
  /\ Len(seg) > 1 => seg[1] # "0"
  /\ Decimal(seg) <= 255

Quad(s) ==
  LET d1 == CHOOSE i \in Dots(s) : \A j \in Dots(s) : i <= j
      d3 == CHOOSE i \in Dots(s) : \A j \in Dots(s) : i >= j
      d2 == CHOOSE i \in Dots(s) : i # d1 /\ i # d3
  IN <<SubSeq(s, 1, d1 - 1), SubSeq(s, d1 + 1, d2 - 1),
       SubSeq(s, d2 + 1, d3 - 1), SubSeq(s, d3 + 1, Len(s))>>

IsDottedQuad(s) ==
  /\ Cardinality(Dots(s)) = 3
  /\ \A k \in 1 .. 4 : IsOctet(Quad(s)[k])

\* The read response has a string at the provider's address path.
HasAddressString(b) ==
  IF deployer.provider = "Hivelocity"
  THEN b.t = "Object" /\ Has(b, "primaryIp") /\ At(b, "primaryIp").t = "String"
  ELSE /\ b.t = "Object"
       /\ Has(b, "instance")
       /\ At(b, "instance").t = "Object"
       /\ Has(At(b, "instance"), "floating_ip")
       /\ At(At(b, "instance"), "floating_ip").t = "String"

AddressString(b) ==
  IF deployer.provider = "Hivelocity"
  THEN At(b, "primaryIp").s
  ELSE At(At(b, "instance"), "floating_ip").s

\* C4: ipv4 on a read response delivered with success status never returns
\* an error nor NotSupported: it returns Supported(Some(addr)) exactly when
\* the field at the provider's path is a string that is a dotted-quad IPv4
\* literal, addr being its value, and Supported(None) otherwise.
C4_Ipv4Total ==
  (last.op = "ipv4" /\ Delivered) =>
    LET b == last.reply.body
    IN /\ last.result.tag = "Ok"
       /\ last.result.err = NoError
       /\ last.result.ip.support = "Supported"
       /\ IF HasAddressString(b) /\ IsDottedQuad(AddressString(b))
          THEN last.result.ip.ip =
                 Some([k \in 1 .. 4 |-> Decimal(Quad(AddressString(b))[k])])
          ELSE last.result.ip.ip = None

\* Hyperstack ipv4 returned 255.10.0.9 from instance.floating_ip.
C4_Witness ==
  /\ Returns("ipv4", "Hyperstack")
  /\ Delivered
  /\ HasAddressString(last.reply.body)
  /\ last.result.ip = Supported(Some(<<255, 10, 0, 9>>))

FieldNames ==
  <<"XNODE_OWNER", "DOMAIN", "ACME_EMAIL", "USER_PASSWD", "ENCRYPTED",
    "INITIAL_CONFIG">>

FieldOf(di, name) ==
  CASE name = "XNODE_OWNER" -> di.xnode_owner
    [] name = "DOMAIN" -> di.domain
    [] name = "ACME_EMAIL" -> di.acme_email
    [] name = "USER_PASSWD" -> di.user_passwd
    [] name = "ENCRYPTED" -> di.encrypted
    [] name = "INITIAL_CONFIG" -> di.initial_config

IsPresent(name) == FieldOf(input, name) # None

\* The names of the present fields of the input, in the fixed order.
PresentNames == SelectSeq(FieldNames, IsPresent)

OnlyDomain == [NoInput EXCEPT !.domain = Some("a.com")]

\* C5: for every subset of present fields the script is the header, then
\* one `export NAME="value" && ` fragment per present field and none for an
\* absent one, in the order XNODE_OWNER, DOMAIN, ACME_EMAIL, USER_PASSWD,
\* ENCRYPTED, INITIAL_CONFIG, then the install command; with only domain =
\* "a.com" it holds the DOMAIN fragment and no other.
C5_CloudInitFragments ==
  script # <<>> =>
    /\ Len(script) = 2 + 5 * Len(PresentNames)
    /\ script[1] = Header
    /\ script[Len(script)] = Install
    /\ \A k \in 1 .. Len(PresentNames) :
         SubSeq(script, 5 * k - 3, 5 * k + 1) =
           <<"export ", PresentNames[k], "=\"",
             FieldOf(input, PresentNames[k])[1], "\" && ">>
    /\ Cardinality({i \in 1 .. Len(script) : script[i] = "export "}) =
         Cardinality({k \in 1 .. 6 : IsPresent(FieldNames[k])})
    /\ input = OnlyDomain =>
         script = <<Header, "export ", "DOMAIN", "=\"", "a.com", "\" && ", Install>>

\* cloud_init ran on an input with owner and domain present and the other
\* four absent: two fragments, owner first.
C5_Witness ==
  /\ input.xnode_owner = Some("0xabc")
  /\ input.domain = Some("a.com")
  /\ Len(PresentNames) = 2
  /\ script = <<Header, "export ", "XNODE_OWNER", "=\"", "0xabc", "\" && ",
                "export ", "DOMAIN", "=\"", "a.com", "\" && ", Install>>

Placeholder == <<"0", ".", "0", ".", "0", ".", "0">>

\* C6: a deploy returns a handle only once it has observed an address other
\* than the placeholder "0.0.0.0": it re-issues the read while the
\* placeholder is observed, so the last reply it received before returning
\* carries a non-placeholder address.
C6_ReadyBeforeHandle ==
  (last.op = "deploy" /\ last.result.tag = "Ok") =>
    /\ HasAddressString(last.reply.body)
    /\ AddressString(last.reply.body) # Placeholder

\* The collection of each hardware variant.
ScopeOf(hardware) ==
  CASE hardware = "BareMetal" -> "bare-metal-devices"
    [] hardware = "Compute" -> "compute"
    [] hardware = "VirtualMachine" -> "virtual-machines"

\* A call on a handle addresses the handle's identifier in the collection
\* the handle was created in.
SameResource(call) ==
  call.op \in {"undeploy", "ipv4"} =>
    /\ Len(call.reqs) = 1
    /\ call.reqs[1].method = (IF call.op = "undeploy" THEN "DELETE" ELSE "GET")
    /\ call.reqs[1].url.id = call.xnode
    /\ call.reqs[1].url.scope = ScopeOf(deployer.hardware)
    /\ \A c \in created :
         Some(c.id) = call.xnode =>
           /\ c.scope = call.reqs[1].url.scope
           /\ c.scope = ScopeOf(deployer.hardware)

\* C7: the handle deploy returned is the one undeploy and ipv4 address: their
\* URL is built from the identifier of the create response and from the
\* collection deploy posted to (BareMetal: bare-metal-devices, Compute:
\* compute, Hyperstack: virtual-machines).
C7_RoundTrip ==
  /\ SameResource(last)
  /\ \A s \in Slots : SameResource(inflight[s])
  /\ \A c \in created : c.scope = ScopeOf(deployer.hardware)

\* On a Compute adapter, undeploy of a handle that deploy returned has
\* succeeded with a DELETE in the compute collection.
C7_Witness ==
  /\ deployer.hardware = "Compute"
  /\ last.op = "undeploy"
  /\ last.result.tag = "Ok"
  /\ \E c \in created : Some(c.id) = last.xnode /\ c.scope = "compute"
  /\ last.reqs[1].url.scope = "compute"

\* The request failed in the transport or got an error status.
TransportFailure ==
  \/ ~last.reply.sent
  \/ last.reply.status \in 400 .. 599

\* C8: in every call a transport failure or an error status is returned at
\* once as Error::ReqwestError: one request issued, no body read, no handle,
\* no address, no structural error.
C8_TransportPropagates ==
  (last.op \in {"deploy", "undeploy", "ipv4"} /\ TransportFailure) =>
    /\ Len(last.reqs) = 1
    /\ ~last.body_read
    /\ last.result.tag = "Err"
    /\ last.result.err.outer = "ReqwestError"
    /\ last.result.id = None
    /\ last.result.ip = NoIp

\* deploy got status 500 with a well-formed body and returned the transport
\* error.
C8_Witness ==
  /\ last.op = "deploy"
  /\ last.reply.sent
  /\ last.reply.status = 500
  /\ last.reply.body.t = "Object"
  /\ last.result = Err(ReqwestError("status"))
  /\ Len(last.reqs) = 1

\* C9: undeploy reads no body and returns success exactly when its one
\* delete request completes with a success status, whatever the body and
\* whether or not the handle was deleted before; otherwise it returns the
\* failure as Error::ReqwestError.
C9_UndeploySurfaces ==
  last.op = "undeploy" =>
    /\ Len(last.reqs) = 1
    /\ ~last.body_read
    /\ last.result.tag = "Ok" <=> SuccessStatus
    /\ last.result.tag = "Ok" => last.result = Ok(None, NoIp)
    /\ last.result.tag # "Ok" =>
         /\ last.result.tag = "Err"
         /\ last.result.err.outer = "ReqwestError"

\* A second undeploy of a handle already deleted returned the provider's
\* error status.
C9_Witness ==
  /\ last.op = "undeploy"
  /\ last.xnode[1] \in deleted
  /\ last.reply.status = 404
  /\ last.result = Err(ReqwestError("status"))

\* The create response reaches an identifier at the provider's path.
ReachesId(b) ==
  IF deployer.provider = "Hivelocity"
  THEN b.t = "Object" /\ Has(b, "deviceId")
  ELSE /\ b.t = "Object"
       /\ Has(b, "instances")
       /\ At(b, "instances").t = "Array"
       /\ Len(At(b, "instances").a) > 0
       /\ At(b, "instances").a[1].t = "Object"
       /\ Has(At(b, "instances").a[1], "id")

IdOf(b) ==
  IF deployer.provider = "Hivelocity"
  THEN At(b, "deviceId")
  ELSE At(At(b, "instances").a[1], "id")

InvalidIdVariant ==
  IF deployer.provider = "Hivelocity"
  THEN Structural("HivelocityError", "ResponseInvalidDeviceId")
  ELSE Structural("HyperstackError", "ResponseInvalidId")

\* C10 as stated: whenever the identifier at the provider's path is a JSON
\* number deploy succeeds with a handle, and the invalid-identifier error is
\* returned exactly when the identifier is present and not a JSON number.
C10_AnyNumberAccepted ==
  (last.op = "deploy" /\ Delivered) =>
    LET b == last.reply.body
    IN /\ (ReachesId(b) /\ IdOf(b).t = "Number") => last.result.tag = "Ok"
       /\ InvalidIdVariant <=> (ReachesId(b) /\ IdOf(b).t # "Number")

\* C10 amended: deploy succeeds, with the identifier as the handle, whenever
\* the identifier at the provider's path is a JSON number that is a u64 (a
\* non-negative integer); the invalid-identifier error is returned exactly
\* when the identifier is present and is anything else (another JSON type,
\* or a negative or fractional number), and it carries the offending value.
C10_U64Accepted ==
  (last.op = "deploy" /\ Delivered) =>
    LET b == last.reply.body
    IN /\ (ReachesId(b) /\ IsU64(IdOf(b))) => Handle(IdOf(b).n)
       /\ InvalidIdVariant <=> (ReachesId(b) /\ ~IsU64(IdOf(b)))
       /\ InvalidIdVariant => last.result.err.payload = IdOf(b)

\* Hivelocity deploy answered {"deviceId": -1} with ResponseInvalidDeviceId
\* carrying -1.
C10_Witness ==
  /\ Returns("deploy", "Hivelocity")
  /\ Delivered
  /\ last.reply.body = Obj({KV("deviceId", NegInt(-1))})
  /\ InvalidIdVariant
  /\ last.result.err.payload = NegInt(-1)

\* The result is the provider's ResponseNotObject.
NotObjectVariant ==
  IF deployer.provider = "Hivelocity"
  THEN Structural("HivelocityError", "ResponseNotObject")
  ELSE Structural("HyperstackError", "ResponseNotObject")

\* C11: deploy returns ResponseNotObject if and only if the top-level create
\* response is not a JSON object, and the error carries that non-object
\* response; an object malformed deeper down (Hyperstack: a first element
\* of "instances" that is not an object) gets a field-specific variant.
C11_NotObjectIffTopLevel ==
  (last.op = "deploy" /\ Delivered) =>
    /\ NotObjectVariant <=> last.reply.body.t # "Object"
    /\ NotObjectVariant =>
         /\ last.result.err.payload = last.reply.body
         /\ last.result.err.payload.t # "Object"

\* What one call returns when it runs alone, listed reply by reply for the
\* replies drawn while calls overlap.
Alone(op, provider, reply) ==
  IF ~reply.sent THEN Err(ReqwestError("send"))
  ELSE IF reply.status \in 400 .. 599 THEN Err(ReqwestError("status"))
  ELSE IF op = "undeploy" THEN Ok(None, NoIp)
  ELSE IF reply.body = NotJson THEN Err(ReqwestError("decode"))
  ELSE IF op = "deploy"
  THEN CASE reply.body = WellFormed(42, Placeholder) -> Ok(Some(42), NoIp)
         [] reply.body = WellFormed(7, <<"1", ".", "2", ".", "3", ".", "4">>) ->
              Ok(Some(7), NoIp)
         [] reply.body = Null ->
              Err(XnodeDeployerError(provider \o "Error", "ResponseNotObject", Null))
         [] reply.body = Obj({}) ->
              Err(XnodeDeployerError(
                    provider \o "Error",
                    IF provider = "Hivelocity"
                    THEN "ResponseMissingDeviceId"
                    ELSE "ResponseMissingInstances",
                    Obj({})))
  ELSE CASE reply.body = WellFormed(42, Placeholder) ->
              Ok(None, Supported(Some(<<0, 0, 0, 0>>)))
         [] reply.body = WellFormed(42, <<"1", ".", "2", ".", "3", ".", "4">>) ->
              Ok(None, Supported(Some(<<1, 2, 3, 4>>)))
         [] reply.body = Obj({}) -> Ok(None, Supported(None))

\* A call in flight has issued its own one request, and nothing else.
OwnRequest(call) ==
  /\ Len(call.reqs) = 1
  /\ call.reqs[1].method =
       (CASE call.op = "deploy" -> "POST"
          [] call.op = "undeploy" -> "DELETE"
          [] call.op = "ipv4" -> "GET")
  /\ call.reqs[1].url.id = call.xnode
  /\ call.reqs[1].header.value = deployer.api_key

\* C12: under every interleaving of overlapping deploy, undeploy and ipv4
\* calls on one adapter, each step leaves the configuration (API key,
\* hardware variant) unchanged and touches one call only; every call in
\* flight has issued exactly its own request (two deploys, two create
\* requests), and a call that returns returns what it would return alone
\* on the same argument and reply, whatever the other calls did.
C12_NoSharedState ==
  [][/\ deployer' = deployer
     /\ \A s \in Slots : inflight'[s].op # "idle" => OwnRequest(inflight'[s])
     /\ \A s, t \in Slots :
          (inflight'[s] # inflight[s] /\ inflight'[t] # inflight[t]) => s = t
     /\ last' # last =>
          /\ \E s \in Slots :
               /\ inflight[s].op = last'.op
               /\ inflight'[s] = Idle
               /\ last'.reqs = inflight[s].reqs
               /\ last'.xnode = inflight[s].xnode
          /\ Len(last'.reqs) = 1
          /\ last'.result = Alone(last'.op, deployer.provider, last'.reply)]_vars

\* After a deploy returned a handle, two more deploys are in flight at the
\* same time, each with its own create request.
C12_Witness ==
  /\ MaxInflight >= 2
  /\ last.op = "deploy"
  /\ last.result.tag = "Ok"
  /\ inflight[1].op = "deploy"
  /\ inflight[2].op = "deploy"
  /\ OwnRequest(inflight[1])
  /\ OwnRequest(inflight[2])

====
